---- MODULE Spec2Model ----
(***************************************************************************)
(* Idempotent transaction API (Go, Gin, Redis, PostgreSQL).                *)
(*                                                                         *)
(* The model follows one POST /transactions request through the Enforce    *)
(* middleware, the CreateTransaction handler and service, and the nested   *)
(* CreateIdempotencyCache service.  The durable store is two tables with   *)
(* their unique constraints, written through two independent transactions  *)
(* (the service opens the inner one on the global handle, not on the outer *)
(* transaction), and the cache is a key -> entry map with per-key expiry.  *)
(***************************************************************************)
EXTENDS Integers, Sequences, FiniteSets, TLC

(***************************************************************************)
(* Bounds of the model.                                                    *)
(***************************************************************************)
NumReqs == 2
MaxTime == 24

(***************************************************************************)
(* Program constants and configuration values.                             *)
(***************************************************************************)
ttl_hour == 24
\* The clock is observed once per cache TTL period.
TickHours == ttl_hour

Reqs == 1..NumReqs
Keys == {"k1", "k2"}
\* Values of the key header of request r ("" when the header is absent).
\* Keys are interchangeable, so the first request presents k1 when it
\* presents a key at all.
KeyHeaders(r) == IF r = 1 THEN {"k1", ""} ELSE Keys \cup {""}
\* A key header that is not a UUID, and the test the uuid columns of the
\* tables apply to a key (the keys of Keys stand for UUIDs).
BadKeys == {"not-a-uuid"}
IsUUID(k) == k \in Keys
Methods == {"POST", "GET"}

\* Request payloads as byte strings: <<amount, consumer>> decodes to a
\* transaction, <<amount, consumer, key>> to a transaction that names an
\* idempotencyCacheKey itself, any other non-empty string is malformed JSON.
Bodies == {<< >>, <<7>>, <<0, 1>>, <<150, 1>>, <<170, 1, "k2">>, <<150, 2>>, <<150, 3>>}
\* A body whose read fails (GetRawData and the JSON binding return an error).
Unreadable == <<-1>>

\* The requests request r may be: a POST with or without the first key and
\* any body, or with the second key and a well-formed body;
\* a request with another method (with and without a key); a POST whose key
\* is not a UUID; a POST whose body cannot be read.
Received(r) ==
    {[method |-> "POST", hdr |-> h, body |-> b] : h \in KeyHeaders(r) \ {"k2"}, b \in Bodies}
    \cup {[method |-> "POST", hdr |-> h, body |-> b] :
             h \in KeyHeaders(r) \cap {"k2"}, b \in {<<150, 1>>, <<170, 1, "k2">>}}
    \cup {[method |-> m, hdr |-> h, body |-> <<150, 1>>] :
             m \in Methods \ {"POST"}, h \in {"k1", ""}}
    \cup {[method |-> "POST", hdr |-> h, body |-> <<150, 1>>] : h \in BadKeys}
    \cup {[method |-> "POST", hdr |-> "k1", body |-> Unreadable]}

\* The consumers table (seeded, not changed by the transaction API).
ConsumerStatusActive == "active"
Consumers == [c \in {1, 2} |-> IF c = 1 THEN ConsumerStatusActive ELSE "inactive"]

TransactionStatusPending == "pending"

\* Values of the environment variables read by Enforce and by
\* CreateIdempotencyCache.
EnabledValues == {"TRUE", "FALSE", ""}
HeaderValues == {"Idempotency-Key", ""}
PrefixValues == {"idempotency_cache:", ""}
TtlValues == {"abc", "12", "24", "48"}
Cfg(enabled, keyHeader, prefix, ttlHours) ==
    [enabled |-> enabled, keyHeader |-> keyHeader, prefix |-> prefix,
     ttlHours |-> ttlHours]
\* The configurations explored: enforcement on with every TTL value, one
\* configuration for each way the settings can be off or missing, and one
\* with enforcement off and a setting missing.
Envs ==
    {Cfg("TRUE", "Idempotency-Key", "idempotency_cache:", t) : t \in TtlValues}
    \cup {Cfg(e, "Idempotency-Key", "idempotency_cache:", "48") : e \in EnabledValues}
    \cup {Cfg("TRUE", h, "idempotency_cache:", "48") : h \in HeaderValues}
    \cup {Cfg("TRUE", "Idempotency-Key", p, "48") : p \in PrefixValues}
    \cup {Cfg("FALSE", "", "idempotency_cache:", "48")}

None == [none |-> TRUE]
NoData == << >>

VARIABLES env, now, redis, transactions, idempotency_cache,
          pc, req, t1, t2, resp,
          RedisClient, once, ret

\* The cache client of the process: the package variables RedisClient ("nil"
\* or "client") and once (TRUE when once.Do has run), and the last call made
\* on the client package with what it returned.
clientVars == <<RedisClient, once, ret>>

vars == <<env, now, redis, transactions, idempotency_cache,
          pc, req, t1, t2, resp, clientVars>>

(***************************************************************************)
(* Pure functions.                                                         *)
(***************************************************************************)

\* Variant: the empty input is hashed like any other.
Hash256BytesOfAnything(b) == [err |-> FALSE, digest |-> <<"sha256">> \o b]

\* SHA-256 as a collision-free digest of the bytes; the empty input is an
\* error.
Hash256Bytes(b) ==
    IF Len(b) = 0
    THEN [err |-> TRUE, digest |-> << >>]
    ELSE [err |-> FALSE, digest |-> <<"sha256">> \o b]

\* strconv.Atoi on the configured TTL.
Atoi(s) ==
    IF s = "12" THEN [err |-> FALSE, n |-> 12]
    ELSE IF s = "24" THEN [err |-> FALSE, n |-> 24]
    ELSE IF s = "48" THEN [err |-> FALSE, n |-> 48]
    ELSE [err |-> TRUE, n |-> 0]

\* c.ShouldBindJSON(&transaction): decode the body into a Transaction.
ShouldBindJSON(b) ==
    IF Len(b) \in {2, 3}
    THEN [err |-> FALSE, Type |-> "payment", Amount |-> b[1], ConsumerID |-> b[2],
          IdempotencyCacheKey |-> IF Len(b) = 3 THEN b[3] ELSE ""]
    ELSE [err |-> TRUE, Type |-> "", Amount |-> 0, ConsumerID |-> 0,
          IdempotencyCacheKey |-> ""]

\* t.Validate(): the struct tags (amount is required, so zero is rejected).
Validate(t) == t.Amount # 0

\* Field order of entity.Transaction, the order json.Marshal writes a struct.
StructFields ==
    <<"id", "idempotencyCacheKey", "type", "amount", "status", "consumerId",
      "createdAt", "updatedAt">>

\* Sorted key order, the order json.Marshal writes a map.
SortedFields ==
    <<"amount", "consumerId", "createdAt", "id", "idempotencyCacheKey",
      "status", "type", "updatedAt">>

FieldOf(e, n) ==
    CASE n = "id" -> e.ID
      [] n = "idempotencyCacheKey" -> e.IdempotencyCacheKey
      [] n = "type" -> e.Type
      [] n = "amount" -> e.Amount
      [] n = "status" -> e.Status
      [] n = "consumerId" -> e.ConsumerID
      [] n = "createdAt" -> e.CreatedAt
      [] n = "updatedAt" -> e.UpdatedAt

\* json.Marshal of a Transaction: the fields in struct order.
MarshalTransaction(e) ==
    [i \in DOMAIN StructFields |-> <<StructFields[i], FieldOf(e, StructFields[i])>>]

\* json.Unmarshal into `any`: an object becomes a map from names to values.
UnmarshalAny(s) ==
    [n \in {s[i][1] : i \in DOMAIN s} |->
        s[CHOOSE i \in DOMAIN s : s[i][1] = n][2]]

\* json.Marshal of a map: the keys in sorted order.
MarshalMap(m) ==
    LET present == SelectSeq(SortedFields, LAMBDA n : n \in DOMAIN m)
    IN [i \in DOMAIN present |-> <<present[i], m[present[i]]>>]

(***************************************************************************)
(* The durable store.                                                      *)
(***************************************************************************)

\* A table never accepts or returns two rows under one unique key: a key is
\* taken when a committed row carries it.
RowWithKeyNever(rowKeys, k) == FALSE

RowWithKey(rowKeys, k) == k \in rowKeys

TransactionKeys == {e.IdempotencyCacheKey : e \in transactions}
IdempotencyKeys == {x.Key : x \in idempotency_cache}

(***************************************************************************)
(* The cache.                                                              *)
(***************************************************************************)
RedisKeys == {p \o k : p \in PrefixValues, k \in Keys \cup BadKeys}

\* redisutil.GetJSON: the entry, or redis.Nil.
GetJSON(key) == redis[key]

\* Variant: the write is dropped.
SetJSONDropped(key, value, ttl) == redis

\* redisutil.SetJSON with a TTL.
SetJSON(key, value, ttl) ==
    [redis EXCEPT ![key] = [value |-> value, expireAt |-> now + ttl]]

(***************************************************************************)
(* Initial state: empty tables, empty cache, no request received, the      *)
(* cache client not yet created.                                           *)
(***************************************************************************)
Init ==
    /\ env \in Envs
    /\ now = 0
    /\ redis = [k \in RedisKeys |-> None]
    /\ transactions = {}
    /\ idempotency_cache = {}
    /\ pc = [r \in Reqs |-> "new"]
    /\ req = [r \in Reqs |-> None]
    /\ t1 = [r \in Reqs |-> None]
    /\ t2 = [r \in Reqs |-> None]
    /\ resp = [r \in Reqs |-> None]
    /\ RedisClient = "nil"
    /\ once = FALSE
    /\ ret = [call |-> "none"]

\* httputil.<Status>(c, message, error/data): write the response envelope.
Respond(r, status, error, data) ==
    /\ pc' = [pc EXCEPT ![r] = "done"]
    /\ resp' = [resp EXCEPT ![r] = [status |-> status, error |-> error, data |-> data]]

\* Both transactions of the request are rolled back.
Rollback(r) ==
    /\ t1' = [t1 EXCEPT ![r] = None]
    /\ t2' = [t2 EXCEPT ![r] = None]

(***************************************************************************)
(* Enforce: the idempotency middleware.                                    *)
(***************************************************************************)
\* Variant: the body hash is not compared, every hit is replayed.
OnCacheHitNoConflict(r, seen, cachedData) ==
    /\ req' = [req EXCEPT ![r] = seen]
    /\ Respond(r, 200, "",
               MarshalMap(UnmarshalAny(cachedData.value.ResponsePayload)))

\* Variant: the chain is not aborted on a matching hit, the handler runs.
OnCacheHitNoAbort(r, seen, cachedData) ==
    /\ req' = [req EXCEPT ![r] = seen]
    /\ IF cachedData.value.BodyHash # seen.BodyHash
       THEN Respond(r, 409, "Conflict", NoData)
       ELSE /\ pc' = [pc EXCEPT ![r] = "handler"]
            /\ UNCHANGED resp

\* Variant: the response is written but the chain is not aborted.
OnCacheHitNotAborting(r, seen, cachedData) ==
    /\ req' = [req EXCEPT ![r] = seen]
    /\ resp' = [resp EXCEPT ![r] =
                  IF cachedData.value.BodyHash # seen.BodyHash
                  THEN [status |-> 409, error |-> "Conflict", data |-> NoData]
                  ELSE [status |-> 200, error |-> "",
                        data |-> MarshalMap(UnmarshalAny(cachedData.value.ResponsePayload))]]
    /\ pc' = [pc EXCEPT ![r] = "handler"]

\* The cache holds an entry for the key: conflict when the hashes differ,
\* replay of the stored response otherwise; the chain is aborted either way.
OnCacheHit(r, seen, cachedData) ==
    /\ req' = [req EXCEPT ![r] = seen]
    /\ IF cachedData.value.BodyHash # seen.BodyHash
       THEN Respond(r, 409, "Conflict", NoData)
       ELSE Respond(r, 200, "",
                    MarshalMap(UnmarshalAny(cachedData.value.ResponsePayload)))

\* Variant: the metadata is injected although enforcement is disabled.
OnDisabledInjecting(r, bare, seen) ==
    /\ pc' = [pc EXCEPT ![r] = "handler"]
    /\ req' = [req EXCEPT ![r] = IF bare.Header # "" /\ Len(bare.body) > 0
                                 THEN [seen EXCEPT !.Injected = TRUE] ELSE bare]
    /\ UNCHANGED resp

\* Enforcement is disabled: c.Next() without any metadata in the context.
OnDisabled(r, bare, seen) ==
    /\ pc' = [pc EXCEPT ![r] = "handler"]
    /\ req' = [req EXCEPT ![r] = bare]
    /\ UNCHANGED resp

\* Variant: the key header is checked before the method.
RejectedByKeyFirst(method, hdr) ==
    IF hdr = "" THEN 400
    ELSE IF method # "POST" /\ method # "PUT" /\ method # "DELETE" THEN 405
    ELSE 0

\* The request validation of Enforce: the status it rejects the request
\* with, 0 when the request passes; the method is checked first.
RejectedBy(method, hdr) ==
    IF method # "POST" /\ method # "PUT" /\ method # "DELETE" THEN 405
    ELSE IF hdr = "" THEN 400
    ELSE 0

\* Variant: a failed lookup is taken for a miss and the request goes on.
OnLookupErrorAsMiss(r, got, seen) ==
    /\ pc' = [pc EXCEPT ![r] = "handler"]
    /\ req' = [req EXCEPT ![r] = [seen EXCEPT !.Lookup = "error", !.Injected = TRUE]]
    /\ UNCHANGED resp

\* GetJSON returned an error other than redis.Nil (the cache is unreachable,
\* the client is nil, the entry does not decode): 500 and abort.
OnLookupError(r, got, seen) ==
    /\ Respond(r, 500, "redis error", NoData)
    /\ req' = [req EXCEPT ![r] = got]

\* Variant: the disabled short-circuit comes before the configuration check.
ConfigMissingAfterDisabled(e) ==
    e.enabled = "TRUE" /\ (e.keyHeader = "" \/ e.prefix = "")

\* The first test of Enforce: one of IDEMPOTENCY_ENABLED,
\* IDEMPOTENCY_KEY_HEADER, IDEMPOTENCY_PREFIX is empty.
ConfigMissing(e) == e.enabled = "" \/ e.keyHeader = "" \/ e.prefix = ""

\* redisUp: the lookup returns the entry or redis.Nil; otherwise it returns
\* another error, whatever the cache holds.  The outcome is recorded with
\* what Enforce saw of the request: method and key header, whether the
\* body it read (Raw) was empty, the result of the lookup, and whether the
\* key and the hash were injected into the request context.
EnforceOutcome(r, method, hdr, body, redisUp) ==
    LET h == Hash256Bytes(body)
        redisKey == env.prefix \o hdr
        cachedData == GetJSON(redisKey)
        raw == IF Len(body) = 0 THEN "empty" ELSE "bytes"
        seen == [hasMeta |-> TRUE, Key |-> hdr, BodyHash |-> h.digest, body |-> body,
                 Header |-> hdr, Method |-> method, Raw |-> raw,
                 Lookup |-> IF cachedData # None THEN "hit" ELSE "nil",
                 Injected |-> FALSE]
        bare == [hasMeta |-> FALSE, Key |-> "", BodyHash |-> << >>, body |-> body,
                 Header |-> hdr, Method |-> method, Raw |-> "unread",
                 Lookup |-> "none", Injected |-> FALSE]
        got == [hasMeta |-> FALSE, Key |-> "", BodyHash |-> << >>, body |-> << >>,
                Header |-> hdr, Method |-> method, Raw |-> "unread",
                Lookup |-> "none", Injected |-> FALSE]
    IN
    IF ConfigMissing(env) THEN
        /\ Respond(r, 500, "idempotency environment variables are not set", NoData)
        /\ req' = [req EXCEPT ![r] = got]
    ELSE IF env.enabled # "TRUE" THEN
        OnDisabled(r, bare, seen)
    ELSE IF RejectedBy(method, hdr) = 405 THEN
        /\ Respond(r, 405, "Method Not Allowed", NoData)
        /\ req' = [req EXCEPT ![r] = got]
    ELSE IF RejectedBy(method, hdr) = 400 THEN
        /\ Respond(r, 400, "Idempotency key header is required", NoData)
        /\ req' = [req EXCEPT ![r] = got]
    ELSE IF body = Unreadable THEN
        /\ Respond(r, 500, "Failed to read request body", NoData)
        /\ req' = [req EXCEPT ![r] = got]
    ELSE IF h.err THEN
        /\ Respond(r, 500, "Failed to hash request body", NoData)
        /\ req' = [req EXCEPT ![r] = [got EXCEPT !.Raw = raw]]
    ELSE IF ~redisUp THEN
        OnLookupError(r, [got EXCEPT !.Raw = raw, !.Lookup = "error"], seen)
    ELSE IF cachedData # None THEN
        OnCacheHit(r, seen, cachedData)
    ELSE
        \* inject the metadata and call the next handler
        /\ pc' = [pc EXCEPT ![r] = "handler"]
        /\ req' = [req EXCEPT ![r] = [seen EXCEPT !.Injected = TRUE]]
        /\ UNCHANGED resp

Enforce(r) ==
    /\ pc[r] = "new"
    /\ \A q \in Reqs : q < r => pc[q] # "new"
    /\ \E m \in Received(r), redisUp \in BOOLEAN :
          EnforceOutcome(r, m.method, m.hdr, m.body, redisUp)
    /\ UNCHANGED <<clientVars, env, now, redis, transactions, idempotency_cache, t1, t2>>

(***************************************************************************)
(* TransactionHandler.CreateTransaction and transactionService             *)
(* .CreateTransaction, up to the insert of the transaction row in the      *)
(* outer transaction.                                                      *)
(***************************************************************************)

\* Variant: a key named in the body is kept.
NewTransactionKeepingBodyKey(r) ==
    LET t == ShouldBindJSON(req[r].body) IN
    [ID |-> r,
     IdempotencyCacheKey |-> IF t.IdempotencyCacheKey # ""
                             THEN t.IdempotencyCacheKey ELSE req[r].Key,
     Type |-> t.Type,
     Amount |-> t.Amount, Status |-> TransactionStatusPending,
     ConsumerID |-> t.ConsumerID, CreatedAt |-> now, UpdatedAt |-> now]

\* The row the outer transaction inserts: the bound body, the key from the
\* context (replacing a key named in the body), status pending, and the id
\* and timestamps the insert fills in.
NewTransaction(r) ==
    LET t == ShouldBindJSON(req[r].body) IN
    [ID |-> r, IdempotencyCacheKey |-> req[r].Key, Type |-> t.Type,
     Amount |-> t.Amount, Status |-> TransactionStatusPending,
     ConsumerID |-> t.ConsumerID, CreatedAt |-> now, UpdatedAt |-> now]

\* s.repo.CreateTransaction(tx, t): the insert waits while another open
\* transaction holds an uncommitted row with the same unique key, and fails
\* when a committed row has it or when the key is no value of the uuid
\* column.
InsertTransaction(r) ==
    /\ ~\E q \in Reqs \ {r} :
          t1[q] # None /\ t1[q].IdempotencyCacheKey = req[r].Key
    /\ IF ~IsUUID(req[r].Key) \/ RowWithKey(TransactionKeys, req[r].Key)
       THEN /\ Respond(r, 500, "failed to create transaction", NoData)
            /\ UNCHANGED t1
       ELSE /\ t1' = [t1 EXCEPT ![r] = NewTransaction(r)]
            /\ pc' = [pc EXCEPT ![r] = "idemCheck"]
            /\ UNCHANGED resp

\* metacontext.ExtractIdemCompetencyMeta(ctx): whether Enforce injected the
\* key and body hash into the request context.
ExtractIdemCompetencyMeta(r) == req[r].Injected

\* Variant: the consumer is not looked up before the row is inserted.
CreateTransactionUnchecked(r) ==
    /\ pc[r] = "handler"
    /\ LET t == ShouldBindJSON(req[r].body) IN
       IF t.err THEN
            Respond(r, 400, "Invalid request body", NoData) /\ UNCHANGED t1
       ELSE IF ~ExtractIdemCompetencyMeta(r) THEN
            Respond(r, 500, "idempotency meta not found in context", NoData)
            /\ UNCHANGED t1
       ELSE IF ~Validate(t) THEN
            Respond(r, 400, "Failed to create transaction", NoData) /\ UNCHANGED t1
       ELSE
            InsertTransaction(r)
    /\ UNCHANGED <<clientVars, env, now, redis, transactions, idempotency_cache, req, t2>>

CreateTransaction(r) ==
    /\ pc[r] = "handler"
    /\ LET t == ShouldBindJSON(req[r].body) IN
       IF t.err THEN
            Respond(r, 400, "Invalid request body", NoData) /\ UNCHANGED t1
       ELSE IF ~ExtractIdemCompetencyMeta(r) THEN
            Respond(r, 500, "idempotency meta not found in context", NoData)
            /\ UNCHANGED t1
       ELSE IF ~Validate(t) THEN
            Respond(r, 400, "Failed to create transaction", NoData) /\ UNCHANGED t1
       ELSE IF t.ConsumerID \notin DOMAIN Consumers THEN
            Respond(r, 404, "Consumer not found", NoData) /\ UNCHANGED t1
       ELSE IF Consumers[t.ConsumerID] # ConsumerStatusActive THEN
            Respond(r, 400, "Invalid transaction data", NoData) /\ UNCHANGED t1
       ELSE
            InsertTransaction(r)
    /\ UNCHANGED <<clientVars, env, now, redis, transactions, idempotency_cache, req, t2>>

\* Variant: the payload is taken from the request, before the insert filled
\* in the id.
NewIdempotencyCacheOfInput(r) ==
    [Key |-> req[r].Key, BodyHash |-> req[r].BodyHash,
     ResponsePayload |-> MarshalTransaction([t1[r] EXCEPT !.ID = 0]),
     CreatedAt |-> now, UpdatedAt |-> now,
     ExpiredAt |-> now + Atoi(env.ttlHours).n]

\* The record CreateIdempotencyCache builds from the context and the payload.
NewIdempotencyCache(r) ==
    [Key |-> req[r].Key, BodyHash |-> req[r].BodyHash,
     ResponsePayload |-> MarshalTransaction(t1[r]),
     CreatedAt |-> now, UpdatedAt |-> now,
     ExpiredAt |-> now + Atoi(env.ttlHours).n]

\* Variant: the record phase inserts without looking for an existing record.
IdemCheckNoRecheck(r) ==
    /\ pc[r] = "idemCheck"
    /\ IF Atoi(env.ttlHours).err THEN
            /\ Respond(r, 500, "invalid Idempotency TTL hours", NoData)
            /\ Rollback(r)
       ELSE
            /\ pc' = [pc EXCEPT ![r] = "idemInsert"]
            /\ UNCHANGED <<resp, t1, t2>>
    /\ UNCHANGED <<clientVars, env, now, redis, transactions, idempotency_cache, req>>

\* CreateIdempotencyCache up to the existence check in its own transaction.
IdemCheck(r) ==
    /\ pc[r] = "idemCheck"
    /\ IF Atoi(env.ttlHours).err THEN
            /\ Respond(r, 500, "invalid Idempotency TTL hours", NoData)
            /\ Rollback(r)
       ELSE IF RowWithKey(IdempotencyKeys, req[r].Key) THEN
            /\ Respond(r, 500, "idempotency key already exists", NoData)
            /\ Rollback(r)
       ELSE
            /\ pc' = [pc EXCEPT ![r] = "idemInsert"]
            /\ UNCHANGED <<resp, t1, t2>>
    /\ UNCHANGED <<clientVars, env, now, redis, transactions, idempotency_cache, req>>

\* s.repo.CreateIdempotencyCache(tx, idemData): insert under the primary key.
IdemInsert(r) ==
    /\ pc[r] = "idemInsert"
    /\ ~\E q \in Reqs \ {r} : t2[q] # None /\ t2[q].Key = req[r].Key
    /\ IF RowWithKey(IdempotencyKeys, req[r].Key)
       THEN /\ Respond(r, 500, "failed to create idempotency cache", NoData)
            /\ Rollback(r)
       ELSE /\ t2' = [t2 EXCEPT ![r] = NewIdempotencyCache(r)]
            /\ pc' = [pc EXCEPT ![r] = "setRedis"]
            /\ UNCHANGED <<resp, t1>>
    /\ UNCHANGED <<clientVars, env, now, redis, transactions, idempotency_cache, req>>

\* Variant: a failed cache write is ignored and the transaction goes on.
IdemSetRedisIgnoringError(r) ==
    /\ pc[r] = "setRedis"
    /\ \E ok \in BOOLEAN :
        /\ redis' = IF ok THEN SetJSON(env.prefix \o req[r].Key, t2[r], ttl_hour)
                    ELSE redis
        /\ pc' = [pc EXCEPT ![r] = "idemCommit"]
        /\ UNCHANGED <<resp, t1, t2>>
    /\ UNCHANGED <<clientVars, env, now, transactions, idempotency_cache, req>>

\* redisutil.SetJSON(redisKey, createdIdemData, ttl) inside the inner
\* transaction; an error is returned from the closure.
IdemSetRedis(r) ==
    /\ pc[r] = "setRedis"
    /\ \E ok \in BOOLEAN :
        IF ok
        THEN /\ redis' = SetJSON(env.prefix \o req[r].Key, t2[r], ttl_hour)
             /\ pc' = [pc EXCEPT ![r] = "idemCommit"]
             /\ UNCHANGED <<resp, t1, t2>>
        ELSE /\ Respond(r, 500, "failed to set idempotency key in Redis", NoData)
             /\ Rollback(r)
             /\ UNCHANGED redis
    /\ UNCHANGED <<clientVars, env, now, transactions, idempotency_cache, req>>

\* Variant: a failed commit of the inner transaction is not reported to
\* the outer one.
IdemCommitIgnoringError(r) ==
    /\ pc[r] = "idemCommit"
    /\ \E ok \in BOOLEAN :
        /\ idempotency_cache' = IF ok THEN idempotency_cache \cup {t2[r]}
                                ELSE idempotency_cache
        /\ t2' = [t2 EXCEPT ![r] = None]
        /\ pc' = [pc EXCEPT ![r] = "txCommit"]
        /\ UNCHANGED <<resp, t1>>
    /\ UNCHANGED <<clientVars, env, now, redis, transactions, req>>

\* The inner transaction commits (or the commit fails).
IdemCommit(r) ==
    /\ pc[r] = "idemCommit"
    /\ \E ok \in BOOLEAN :
        IF ok
        THEN /\ idempotency_cache' = idempotency_cache \cup {t2[r]}
             /\ t2' = [t2 EXCEPT ![r] = None]
             /\ pc' = [pc EXCEPT ![r] = "txCommit"]
             /\ UNCHANGED <<resp, t1>>
        ELSE /\ Respond(r, 500, "idempotency commit failed", NoData)
             /\ Rollback(r)
             /\ UNCHANGED idempotency_cache
    /\ UNCHANGED <<clientVars, env, now, redis, transactions, req>>

\* The outer transaction commits and the handler answers 201 with the
\* created transaction (or the commit fails).
TxCommit(r) ==
    /\ pc[r] = "txCommit"
    /\ \E ok \in BOOLEAN :
        IF ok
        THEN /\ transactions' = transactions \cup {t1[r]}
             /\ Respond(r, 201, "", MarshalTransaction(t1[r]))
        ELSE /\ Respond(r, 500, "transaction commit failed", NoData)
             /\ UNCHANGED transactions
    /\ Rollback(r)
    /\ UNCHANGED <<clientVars, env, now, redis, idempotency_cache, req>>

(***************************************************************************)
(* The environment: time passes and the process restarts.                  *)
(***************************************************************************)
Idle == \A r \in Reqs : pc[r] \in {"new", "done"}

\* Time advances; cache entries whose TTL has elapsed are gone.
Tick ==
    /\ Idle
    /\ now + TickHours <= MaxTime
    /\ now' = now + TickHours
    /\ redis' = [k \in RedisKeys |->
                    IF redis[k] # None /\ redis[k].expireAt <= now'
                    THEN None ELSE redis[k]]
    /\ UNCHANGED <<clientVars, env, transactions, idempotency_cache, pc, req, t1, t2, resp>>

\* InitRedis after a restart with REDIS_FLUSH_DB=TRUE: FlushDB empties the
\* cache; the durable store is untouched.
InitRedis ==
    /\ Idle
    /\ \E k \in RedisKeys : redis[k] # None
    /\ redis' = [k \in RedisKeys |-> None]
    /\ UNCHANGED <<clientVars, env, now, transactions, idempotency_cache, pc, req, t1, t2, resp>>

Next ==
    \/ \E r \in Reqs : Enforce(r)
    \/ \E r \in Reqs : CreateTransaction(r)
    \/ \E r \in Reqs : IdemCheck(r)
    \/ \E r \in Reqs : IdemInsert(r)
    \/ \E r \in Reqs : IdemSetRedis(r)
    \/ \E r \in Reqs : IdemCommit(r)
    \/ \E r \in Reqs : TxCommit(r)
    \/ Tick
    \/ InitRedis

Spec == Init /\ [][Next]_vars

(***************************************************************************)
(* Vocabulary of the properties.                                           *)
(***************************************************************************)
Done(r) == pc[r] = "done"

RedisKey(k) == env.prefix \o k

\* The request passed the middleware's validation and carries key and hash.
Keyed(r) == req[r] # None /\ req[r].hasMeta

\* The body decodes to a valid transaction of an active consumer.
ValidBody(b) ==
    LET t == ShouldBindJSON(b) IN
    /\ ~t.err
    /\ Validate(t)
    /\ t.ConsumerID \in DOMAIN Consumers
    /\ Consumers[t.ConsumerID] = ConsumerStatusActive

\* Errors of the infrastructure (cache or database unavailable).
InfraErrors ==
    {"redis error", "failed to set idempotency key in Redis",
     "idempotency commit failed", "transaction commit failed"}

EntitiesOf(k) == {e \in transactions : e.IdempotencyCacheKey = k}
RecordsOf(k) == {x \in idempotency_cache : x.Key = k}

\* The step of request r that writes its response.
Answers(r) == pc[r] # "done" /\ pc'[r] = "done"

\* The Enforce step of request r, having read key and body.
Looked(r) == pc[r] = "new" /\ pc'[r] # "new" /\ req'[r] # None /\ req'[r].hasMeta

StoresUnchanged == UNCHANGED <<redis, transactions, idempotency_cache, t1, t2>>

(***************************************************************************)
(* UpdateIdempotencyCache: the service call that replaces the response     *)
(* payload of an existing record.  No route calls it; SpecUpdate is the    *)
(* program together with a caller of this method, each call taking the     *)
(* place of one request.                                                   *)
(***************************************************************************)
\* Keys the service methods are called with directly (the requests present
\* this key and another one).
CalledKeys == {"k1"}

\* Payloads handed to UpdateIdempotencyCache (any JSON value; here a map).
UpdatePayloads == {[n \in {"status"} |-> v] : v \in {"completed", "failed"}}

\* The call returns: err is the error returned, "" for none.
UpdReturn(r, err) ==
    /\ pc' = [pc EXCEPT ![r] = "done"]
    /\ resp' = [resp EXCEPT ![r] = [status |-> 0, error |-> err, data |-> NoData]]

\* Variant: the update also writes the body hash anew.
UpdateIdempotencyCacheRehashing(r, key, responsePayload) ==
    /\ pc[r] = "new"
    /\ \A q \in Reqs : q < r => pc[q] # "new"
    /\ IF RecordsOf(key) = {}
       THEN UpdReturn(r, "record not found") /\ UNCHANGED t2
       ELSE \E existingIdem \in RecordsOf(key) :
              /\ ~\E q \in Reqs \ {r} : t2[q] # None /\ t2[q].Key = key
              /\ t2' = [t2 EXCEPT ![r] =
                          [existingIdem EXCEPT
                             !.BodyHash = << >>,
                             !.ResponsePayload = MarshalMap(responsePayload),
                             !.UpdatedAt = now]]
              /\ pc' = [pc EXCEPT ![r] = "updSetRedis"]
              /\ UNCHANGED resp
    /\ UNCHANGED <<clientVars, env, now, redis, transactions, idempotency_cache, req, t1>>

\* The call up to tx.Save: the record is read on the global handle (what is
\* committed), a missing key is an error, otherwise the payload and
\* updatedAt are replaced inside the transaction; the Save waits while
\* another open transaction holds the row.
UpdateIdempotencyCache(r, key, responsePayload) ==
    /\ pc[r] = "new"
    /\ \A q \in Reqs : q < r => pc[q] # "new"
    /\ IF RecordsOf(key) = {}
       THEN UpdReturn(r, "record not found") /\ UNCHANGED t2
       ELSE \E existingIdem \in RecordsOf(key) :
              /\ ~\E q \in Reqs \ {r} : t2[q] # None /\ t2[q].Key = key
              /\ t2' = [t2 EXCEPT ![r] =
                          [existingIdem EXCEPT
                             !.ResponsePayload = MarshalMap(responsePayload),
                             !.UpdatedAt = now]]
              /\ pc' = [pc EXCEPT ![r] = "updSetRedis"]
              /\ UNCHANGED resp
    /\ UNCHANGED <<clientVars, env, now, redis, transactions, idempotency_cache, req, t1>>

\* Variant: the saved record stays although the cache write failed.
UpdSetRedisKeepingSave(r) ==
    /\ pc[r] = "updSetRedis"
    /\ \E ok \in BOOLEAN :
        IF ok
        THEN /\ redis' = SetJSON(env.prefix \o t2[r].Key, t2[r], ttl_hour)
             /\ pc' = [pc EXCEPT ![r] = "updCommit"]
             /\ UNCHANGED <<resp, t2, idempotency_cache>>
        ELSE /\ UpdReturn(r, "failed to update idempotency key in Redis")
             /\ idempotency_cache' =
                  (idempotency_cache \ RecordsOf(t2[r].Key)) \cup {t2[r]}
             /\ t2' = [t2 EXCEPT ![r] = None]
             /\ UNCHANGED redis
    /\ UNCHANGED <<clientVars, env, now, transactions, req, t1>>

\* redisutil.SetJSON(redisKey, updatedIdemData, ttl) inside the transaction:
\* an error of the write is returned from the closure, which rolls the
\* Save back.
UpdSetRedis(r) ==
    /\ pc[r] = "updSetRedis"
    /\ \E ok \in BOOLEAN :
        IF ok
        THEN /\ redis' = SetJSON(env.prefix \o t2[r].Key, t2[r], ttl_hour)
             /\ pc' = [pc EXCEPT ![r] = "updCommit"]
             /\ UNCHANGED <<resp, t2>>
        ELSE /\ UpdReturn(r, "failed to update idempotency key in Redis")
             /\ t2' = [t2 EXCEPT ![r] = None]
             /\ UNCHANGED redis
    /\ UNCHANGED <<clientVars, env, now, transactions, idempotency_cache, req, t1>>

\* Variant: the update reports success without saving the record.
UpdCommitNotSaving(r) ==
    /\ pc[r] = "updCommit"
    /\ \E ok \in BOOLEAN :
        /\ UpdReturn(r, IF ok THEN "" ELSE "update commit failed")
        /\ UNCHANGED idempotency_cache
    /\ t2' = [t2 EXCEPT ![r] = None]
    /\ UNCHANGED <<clientVars, env, now, redis, transactions, req, t1>>

\* The transaction of the update commits (or the commit fails).
UpdCommit(r) ==
    /\ pc[r] = "updCommit"
    /\ \E ok \in BOOLEAN :
        IF ok
        THEN /\ idempotency_cache' =
                  (idempotency_cache \ RecordsOf(t2[r].Key)) \cup {t2[r]}
             /\ UpdReturn(r, "")
        ELSE /\ UpdReturn(r, "update commit failed")
             /\ UNCHANGED idempotency_cache
    /\ t2' = [t2 EXCEPT ![r] = None]
    /\ UNCHANGED <<clientVars, env, now, redis, transactions, req, t1>>

NextUpdate ==
    \/ Next
    \/ \E r \in Reqs : \E key \in CalledKeys, p \in UpdatePayloads :
          UpdateIdempotencyCache(r, key, p)
    \/ \E r \in Reqs : UpdSetRedis(r)
    \/ \E r \in Reqs : UpdCommit(r)

SpecUpdate == Init /\ [][NextUpdate]_vars

(***************************************************************************)
(* CreateIdempotencyCache called by concurrent callers that are not        *)
(* serialised by the insert of a transaction row: SpecCreate is the        *)
(* program together with such callers, each call taking the place of one   *)
(* request.  The context of a call carries the key and the body hash.      *)
(***************************************************************************)
\* Body hashes and payloads handed to the calls.
CreateBodyHashes == {Hash256Bytes(<<150, 1>>).digest}
CreatePayloads(r) == {[n \in {"id"} |-> r]}

\* The call up to the existence check inside its transaction: an invalid
\* TTL and an existing record are errors.
CreateIdempotencyCache(r, key, bodyHash, responsePayload) ==
    /\ pc[r] = "new"
    /\ \A q \in Reqs : q < r => pc[q] # "new"
    /\ IF Atoi(env.ttlHours).err THEN
            UpdReturn(r, "invalid Idempotency TTL hours") /\ UNCHANGED req
       ELSE IF RowWithKey(IdempotencyKeys, key) THEN
            UpdReturn(r, "idempotency key already exists") /\ UNCHANGED req
       ELSE
            /\ pc' = [pc EXCEPT ![r] = "createInsert"]
            /\ req' = [req EXCEPT ![r] =
                          [Key |-> key, BodyHash |-> bodyHash,
                           ResponsePayload |-> MarshalMap(responsePayload),
                           CreatedAt |-> now, UpdatedAt |-> now,
                           ExpiredAt |-> now + Atoi(env.ttlHours).n]]
            /\ UNCHANGED resp
    /\ UNCHANGED <<clientVars, env, now, redis, transactions, idempotency_cache, t1, t2>>

\* s.repo.CreateIdempotencyCache(tx, idemData) of the call: insert under the
\* primary key.
CreateInsert(r) ==
    /\ pc[r] = "createInsert"
    /\ ~\E q \in Reqs \ {r} : t2[q] # None /\ t2[q].Key = req[r].Key
    /\ IF RowWithKey(IdempotencyKeys, req[r].Key)
       THEN UpdReturn(r, "failed to create idempotency cache") /\ UNCHANGED t2
       ELSE /\ t2' = [t2 EXCEPT ![r] = req[r]]
            /\ pc' = [pc EXCEPT ![r] = "createSetRedis"]
            /\ UNCHANGED resp
    /\ UNCHANGED <<clientVars, env, now, redis, transactions, idempotency_cache, req, t1>>

\* redisutil.SetJSON(redisKey, createdIdemData, ttl) of the call.
CreateSetRedis(r) ==
    /\ pc[r] = "createSetRedis"
    /\ \E ok \in BOOLEAN :
        IF ok
        THEN /\ redis' = SetJSON(env.prefix \o t2[r].Key, t2[r], ttl_hour)
             /\ pc' = [pc EXCEPT ![r] = "createCommit"]
             /\ UNCHANGED <<resp, t2>>
        ELSE /\ UpdReturn(r, "failed to set idempotency key in Redis")
             /\ t2' = [t2 EXCEPT ![r] = None]
             /\ UNCHANGED redis
    /\ UNCHANGED <<clientVars, env, now, transactions, idempotency_cache, req, t1>>

\* The transaction of the call commits (or the commit fails).
CreateCommit(r) ==
    /\ pc[r] = "createCommit"
    /\ \E ok \in BOOLEAN :
        IF ok
        THEN /\ idempotency_cache' = idempotency_cache \cup {t2[r]}
             /\ UpdReturn(r, "")
        ELSE /\ UpdReturn(r, "idempotency commit failed")
             /\ UNCHANGED idempotency_cache
    /\ t2' = [t2 EXCEPT ![r] = None]
    /\ UNCHANGED <<clientVars, env, now, redis, transactions, req, t1>>

NextCreate ==
    \/ Next
    \/ \E r \in Reqs :
          \E key \in CalledKeys, h \in CreateBodyHashes, p \in CreatePayloads(r) :
             CreateIdempotencyCache(r, key, h, p)
    \/ \E r \in Reqs : CreateInsert(r)
    \/ \E r \in Reqs : CreateSetRedis(r)
    \/ \E r \in Reqs : CreateCommit(r)

SpecCreate == Init /\ [][NextCreate]_vars

(***************************************************************************)
(* The cache client singleton (config/cache): InitRedis, GetRedisClient    *)
(* and CloseRedis, and the redisutil calls that reach the cache through    *)
(* GetRedisClient.  In Spec the requests see the cache through the outcome *)
(* of each access; SpecRedis is the client package under any sequence of   *)
(* calls.                                                                  *)
(***************************************************************************)
\* What the body of once.Do meets: whether the REDIS_* variables are set,
\* whether the server answers the ping, and REDIS_FLUSH_DB with the result
\* of the flush.
FlushOutcomes == {"off", "ok", "failed"}

\* InitRedis(): what it returns and what it leaves in RedisClient, and
\* whether it flushed the cache.  The body of once.Do runs only when once
\* has not run; it assigns the client before the ping.
InitRedisResult(loaded, ping, flush) ==
    IF once THEN
        [isSuccess |-> TRUE, RedisClient |-> RedisClient, flushed |-> FALSE]
    ELSE IF ~loaded THEN
        [isSuccess |-> FALSE, RedisClient |-> RedisClient, flushed |-> FALSE]
    ELSE IF ~ping \/ flush = "failed" THEN
        [isSuccess |-> FALSE, RedisClient |-> "client", flushed |-> FALSE]
    ELSE
        [isSuccess |-> TRUE, RedisClient |-> "client", flushed |-> flush = "ok"]

\* GetRedisClient(): the client it returns, what the InitRedis it may call
\* leaves behind, and whether it logged "Failed to initialize Redis client".
GetRedisClientResult(loaded, ping, flush) ==
    IF RedisClient = "nil" THEN
        LET i == InitRedisResult(loaded, ping, flush) IN
        [client |-> IF i.isSuccess THEN i.RedisClient ELSE "nil",
         RedisClient |-> i.RedisClient, once |-> TRUE, flushed |-> i.flushed,
         logged |-> ~i.isSuccess]
    ELSE
        [client |-> RedisClient, RedisClient |-> RedisClient, once |-> once,
         flushed |-> FALSE, logged |-> FALSE]

\* The cache after FlushDB, or as it is.
Flushed(f) == IF f THEN [k \in RedisKeys |-> None] ELSE redis

\* A call of InitRedis.
InitRedisCall ==
    /\ \E loaded, ping \in BOOLEAN, flush \in FlushOutcomes :
          LET i == InitRedisResult(loaded, ping, flush) IN
          /\ RedisClient' = i.RedisClient
          /\ once' = TRUE
          /\ redis' = Flushed(i.flushed)
          /\ ret' = [call |-> "InitRedis", isSuccess |-> i.isSuccess,
                      reachable |-> ping]
    /\ UNCHANGED <<env, now, transactions, idempotency_cache, pc, req, t1, t2, resp>>

\* A call of GetRedisClient; the result is recorded with whether the server
\* was reachable and whether the call before it was a CloseRedis that closed
\* a live client.
GetRedisClient ==
    /\ \E loaded, ping \in BOOLEAN, flush \in FlushOutcomes :
          LET g == GetRedisClientResult(loaded, ping, flush) IN
          /\ RedisClient' = g.RedisClient
          /\ once' = g.once
          /\ redis' = Flushed(g.flushed)
          /\ ret' = [call |-> "GetRedisClient", client |-> g.client,
                      reachable |-> ping, logged |-> g.logged,
                      afterClose |-> ret.call = "CloseRedis" /\ ret.closed]
    /\ UNCHANGED <<env, now, transactions, idempotency_cache, pc, req, t1, t2, resp>>

\* A call of CloseRedis: a live client is closed and the variable cleared;
\* once is reset only when there was no client to close.
CloseRedis ==
    /\ IF RedisClient # "nil"
       THEN /\ RedisClient' = "nil"
            /\ UNCHANGED once
            /\ ret' = [call |-> "CloseRedis", closed |-> TRUE]
       ELSE /\ once' = FALSE
            /\ RedisClient' = "nil"
            /\ ret' = [call |-> "CloseRedis", closed |-> FALSE]
    /\ UNCHANGED <<env, now, redis, transactions, idempotency_cache,
                   pc, req, t1, t2, resp>>

\* Values written by the redisutil calls.
CachedValues == {"v1", "v2"}

\* A call of redisutil.SetJSON(key, value, ttl): the client is fetched
\* first, a nil client is an error, and so is a failed Set.
SetJSONCall ==
    /\ \E loaded, ping \in BOOLEAN, flush \in FlushOutcomes,
          k \in Keys, v \in CachedValues :
          LET g == GetRedisClientResult(loaded, ping, flush) IN
          /\ RedisClient' = g.RedisClient
          /\ once' = g.once
          /\ IF g.client = "nil" THEN
                /\ redis' = Flushed(g.flushed)
                /\ ret' = [call |-> "SetJSON", err |-> "redis client is nil"]
             ELSE IF ~ping THEN
                /\ redis' = Flushed(g.flushed)
                /\ ret' = [call |-> "SetJSON", err |-> "set failed"]
             ELSE
                /\ redis' = [Flushed(g.flushed) EXCEPT ![env.prefix \o k] =
                                [value |-> v, expireAt |-> now + ttl_hour]]
                /\ ret' = [call |-> "SetJSON", err |-> ""]
    /\ UNCHANGED <<env, now, transactions, idempotency_cache, pc, req, t1, t2, resp>>

NextRedis ==
    \/ InitRedisCall
    \/ GetRedisClient
    \/ CloseRedis
    \/ SetJSONCall

SpecRedis == Init /\ [][NextRedis]_vars

(***************************************************************************)
(* The connection pool of the store handle.  db.Transaction takes a        *)
(* connection of the pool when it begins and gives it back when it commits *)
(* or rolls back, and waits while none is free.  The outer transaction of  *)
(* CreateTransaction and the transaction CreateIdempotencyCache opens on   *)
(* database.GetPostgres() are two such transactions, the second begun      *)
(* while the first is open.  SpecPool is the program with a pool of        *)
(* PoolSize connections.                                                   *)
(***************************************************************************)
PoolSize == 2

\* Connections the worker of request r holds: one from the begin of the
\* outer transaction to its end, a second from the begin of the transaction
\* of CreateIdempotencyCache to its end.
ConnsHeld(r) ==
    IF pc[r] \in {"idemCheck", "txCommit"} THEN 1
    ELSE IF pc[r] \in {"idemInsert", "setRedis", "idemCommit"} THEN 2
    ELSE 0

RECURSIVE SumHeld(_)
SumHeld(R) ==
    IF R = {} THEN 0
    ELSE LET r == CHOOSE x \in R : TRUE IN ConnsHeld(r) + SumHeld(R \ {r})

ConnsInUse == SumHeld(Reqs)

\* Variant: a begin does not wait for a free connection (the pool grows).
ConnFreeAlways == TRUE

\* A begin goes on only when the pool has a free connection.
ConnFree == ConnsInUse < PoolSize

\* The handler step begins the outer transaction when the body binds, the
\* metadata is in the context and the transaction validates.
PoolCreateTransaction(r) ==
    /\ CreateTransaction(r)
    /\ LET t == ShouldBindJSON(req[r].body) IN
          (~t.err /\ ExtractIdemCompetencyMeta(r) /\ Validate(t)) => ConnFree

\* CreateIdempotencyCache begins its transaction once the TTL is read.
PoolIdemCheck(r) ==
    /\ IdemCheck(r)
    /\ ~Atoi(env.ttlHours).err => ConnFree

\* The steps of the requests under the pool.
PoolRequestStep ==
    \/ \E r \in Reqs : Enforce(r)
    \/ \E r \in Reqs : PoolCreateTransaction(r)
    \/ \E r \in Reqs : PoolIdemCheck(r)
    \/ \E r \in Reqs : IdemInsert(r)
    \/ \E r \in Reqs : IdemSetRedis(r)
    \/ \E r \in Reqs : IdemCommit(r)
    \/ \E r \in Reqs : TxCommit(r)

NextPool ==
    \/ PoolRequestStep
    \/ Tick
    \/ InitRedis

SpecPool == Init /\ [][NextPool]_vars

(***************************************************************************)
(* Concurrent callers of the client package.  SpecInit is the package      *)
(* with one goroutine per caller, each making one InitRedis or             *)
(* GetRedisClient call, step by step, and no CloseRedis: pc[r] is the      *)
(* position of caller r, req[r] its local state (isSuccess, and what it    *)
(* has done inside once.Do), resp[r] what its call returned.               *)
(***************************************************************************)
\* The client redis.NewClient makes when caller r runs it: every call makes
\* a new instance.
NewClient(r) == <<"client1", "client2", "client3", "client4">>[r]

Local(call) ==
    [call |-> call, isSuccess |-> TRUE, built |-> FALSE, pinged |-> FALSE,
     flushed |-> FALSE]

InitFrame == UNCHANGED <<env, now, transactions, idempotency_cache, t1, t2, ret>>

\* Caller r calls InitRedis: isSuccess := true, then once.Do.
CallInitRedis(r) ==
    /\ pc[r] = "new"
    /\ \A q \in Reqs : q < r => pc[q] # "new"
    /\ pc' = [pc EXCEPT ![r] = "onceDo"]
    /\ req' = [req EXCEPT ![r] = Local("InitRedis")]
    /\ UNCHANGED <<RedisClient, once, redis, resp>>
    /\ InitFrame

\* Caller r calls GetRedisClient: the unsynchronised read of RedisClient
\* sees what has been assigned so far; a client is returned as it is,
\* otherwise InitRedis is called.
CallGetRedisClient(r) ==
    /\ pc[r] = "new"
    /\ \A q \in Reqs : q < r => pc[q] # "new"
    /\ req' = [req EXCEPT ![r] = Local("GetRedisClient")]
    /\ IF RedisClient # "nil"
       THEN /\ pc' = [pc EXCEPT ![r] = "done"]
            /\ resp' = [resp EXCEPT ![r] = [client |-> RedisClient]]
       ELSE /\ pc' = [pc EXCEPT ![r] = "onceDo"]
            /\ UNCHANGED resp
    /\ UNCHANGED <<RedisClient, once, redis>>
    /\ InitFrame

InOnceBody(r) == pc[r] \in {"connect", "ping", "flush"}

\* Variant: the body runs for every caller (no once).
OnceDoEveryTime(r) ==
    /\ pc[r] = "onceDo"
    /\ pc' = [pc EXCEPT ![r] = "connect"]
    /\ UNCHANGED <<RedisClient, once, redis, req, resp>>
    /\ InitFrame

\* once.Do(f): waits while another caller is inside f, skips f when it has
\* run, runs it otherwise.
OnceDo(r) ==
    /\ pc[r] = "onceDo"
    /\ ~\E q \in Reqs \ {r} : InOnceBody(q)
    /\ pc' = [pc EXCEPT ![r] = IF once THEN "return" ELSE "connect"]
    /\ UNCHANGED <<RedisClient, once, redis, req, resp>>
    /\ InitFrame

\* The body up to redis.NewClient: without the REDIS_* variables it ends
\* with isSuccess = false, otherwise the new client is assigned.
OnceBodyConnect(r) ==
    /\ pc[r] = "connect"
    /\ \E loaded \in BOOLEAN :
          IF ~loaded
          THEN /\ req' = [req EXCEPT ![r].isSuccess = FALSE]
               /\ pc' = [pc EXCEPT ![r] = "return"]
               /\ once' = TRUE
               /\ UNCHANGED RedisClient
          ELSE /\ req' = [req EXCEPT ![r].built = TRUE]
               /\ RedisClient' = NewClient(r)
               /\ pc' = [pc EXCEPT ![r] = "ping"]
               /\ UNCHANGED once
    /\ UNCHANGED <<redis, resp>>
    /\ InitFrame

\* The ping: a failure ends the body with isSuccess = false.
OnceBodyPing(r) ==
    /\ pc[r] = "ping"
    /\ \E ok \in BOOLEAN :
          IF ok
          THEN /\ req' = [req EXCEPT ![r].pinged = TRUE]
               /\ pc' = [pc EXCEPT ![r] = "flush"]
               /\ UNCHANGED once
          ELSE /\ req' = [req EXCEPT ![r].pinged = TRUE, ![r].isSuccess = FALSE]
               /\ pc' = [pc EXCEPT ![r] = "return"]
               /\ once' = TRUE
    /\ UNCHANGED <<RedisClient, redis, resp>>
    /\ InitFrame

\* The optional flush, and the end of the body.
OnceBodyFlush(r) ==
    /\ pc[r] = "flush"
    /\ \E flush \in FlushOutcomes :
          /\ req' = [req EXCEPT ![r].flushed = (flush # "off"),
                                 ![r].isSuccess = (flush # "failed")]
          /\ redis' = Flushed(flush = "ok")
    /\ pc' = [pc EXCEPT ![r] = "return"]
    /\ once' = TRUE
    /\ UNCHANGED <<RedisClient, resp>>
    /\ InitFrame

\* InitRedis returns isSuccess; GetRedisClient returns nil when it is false
\* and RedisClient otherwise.
InitRedisReturn(r) ==
    /\ pc[r] = "return"
    /\ pc' = [pc EXCEPT ![r] = "done"]
    /\ resp' = [resp EXCEPT ![r] =
                  IF req[r].call = "InitRedis"
                  THEN [isSuccess |-> req[r].isSuccess, client |-> "nil"]
                  ELSE [client |-> IF req[r].isSuccess THEN RedisClient ELSE "nil"]]
    /\ UNCHANGED <<RedisClient, once, redis, req>>
    /\ InitFrame

NextInit ==
    \/ \E r \in Reqs : CallInitRedis(r)
    \/ \E r \in Reqs : CallGetRedisClient(r)
    \/ \E r \in Reqs : OnceDo(r)
    \/ \E r \in Reqs : OnceBodyConnect(r)
    \/ \E r \in Reqs : OnceBodyPing(r)
    \/ \E r \in Reqs : OnceBodyFlush(r)
    \/ \E r \in Reqs : InitRedisReturn(r)

SpecInit == Init /\ [][NextInit]_vars

(***************************************************************************)
(* C1  At-most-once: in every reachable state, for every key, at most one  *)
(* committed transaction row carries that idempotency key, whatever the    *)
(* number and interleaving of the requests presenting it.                  *)
(***************************************************************************)
C1_AtMostOnce ==
    \A k \in Keys : Cardinality(EntitiesOf(k)) <= 1

\* Two requests with one key both reached the insert; one row exists.
C1_Witness ==
    \E r, q \in Reqs :
        /\ r # q /\ Done(r) /\ Done(q) /\ Keyed(r) /\ Keyed(q)
        /\ req[r].Key = req[q].Key
        /\ resp[r].status = 201
        /\ resp[q].status = 500 /\ resp[q].error = "failed to create transaction"
        /\ Cardinality(EntitiesOf(req[r].Key)) = 1

(***************************************************************************)
(* C2  Dedup property: when no infrastructure fault occurred and all       *)
(* requests on a key carry the same valid body, then once they have all    *)
(* finished every one of them was answered 200 or 201, exactly one         *)
(* transaction row exists for the key, and all the responses carry the     *)
(* same data.                                                              *)
(***************************************************************************)
NoInfraFault == \A q \in Reqs : Done(q) => resp[q].error \notin InfraErrors

\* Every request on r's key carries r's body and has finished.
SameBodyOnKey(r) ==
    \A q \in Reqs :
        (Keyed(q) /\ req[q].Key = req[r].Key) => (Done(q) /\ req[q].body = req[r].body)

C2_Dedup ==
    (NoInfraFault /\ ~Atoi(env.ttlHours).err) =>
        \A r \in Reqs :
            (Done(r) /\ Keyed(r) /\ ValidBody(req[r].body) /\ SameBodyOnKey(r)) =>
                /\ resp[r].status \in {200, 201}
                /\ Cardinality(EntitiesOf(req[r].Key)) = 1
                /\ \A q \in Reqs :
                      (Done(q) /\ Keyed(q) /\ req[q].Key = req[r].Key) =>
                          UnmarshalAny(resp[q].data) = UnmarshalAny(resp[r].data)

(***************************************************************************)
(* C3  Replay without re-execution: an Enforce step that finds a cache     *)
(* entry for prefix+key whose BodyHash equals the hash of the request body *)
(* answers 200 with the stored response payload and ends the request (the  *)
(* handler is never entered), leaving the cache, both tables and all open  *)
(* transactions unchanged.                                                 *)
(***************************************************************************)
CacheHit(r) == Looked(r) /\ redis[RedisKey(req'[r].Key)] # None

C3_ReplayWithoutReexecution ==
    [][\A r \in Reqs :
          (CacheHit(r)
           /\ redis[RedisKey(req'[r].Key)].value.BodyHash = req'[r].BodyHash) =>
              /\ pc'[r] = "done"
              /\ resp'[r].status = 200
              /\ UnmarshalAny(resp'[r].data) =
                    UnmarshalAny(redis[RedisKey(req'[r].Key)].value.ResponsePayload)
              /\ StoresUnchanged]_vars

\* A request was answered by a replay of a stored transaction.
C3_Witness ==
    \E r \in Reqs :
        /\ Done(r) /\ Keyed(r) /\ resp[r].status = 200
        /\ \E e \in EntitiesOf(req[r].Key) :
              UnmarshalAny(resp[r].data) = UnmarshalAny(MarshalTransaction(e))

OwnRecord(x, r) == UnmarshalAny(x.ResponsePayload)["id"] = r

InHandler(r) == pc[r] \notin {"new", "done"}

Recorded(r) ==
    LET k == req[r].Key
        t == ShouldBindJSON(req[r].body)
    IN \E e \in transactions :
        /\ EntitiesOf(k) = {e}
        /\ e.ID = r
        /\ e.Status = TransactionStatusPending
        /\ e.Amount = t.Amount /\ e.ConsumerID = t.ConsumerID
        /\ resp[r].data = MarshalTransaction(e)
        /\ \E x \in idempotency_cache :
              /\ RecordsOf(k) = {x}
              /\ x.BodyHash = Hash256Bytes(req[r].body).digest
              /\ x.ResponsePayload = MarshalTransaction(e)
              /\ redis[RedisKey(k)] # None
              /\ redis[RedisKey(k)].value = x

C5_NovelSuccess ==
    [][\A r \in Reqs :
          /\ (/\ Answers(r) /\ InHandler(r) /\ Keyed(r)
              /\ IsUUID(req[r].Key)
              /\ ValidBody(req[r].body)
              /\ ~Atoi(env.ttlHours).err
              /\ EntitiesOf(req[r].Key) = {}
              /\ \A x \in RecordsOf(req[r].Key) : OwnRecord(x, r))
             => (resp'[r].status = 201 \/ resp'[r].error \in InfraErrors)
          /\ (Answers(r) /\ resp'[r].status = 201) => Recorded(r)']_vars

\* A request was answered 201 and its row, record and cache entry are there.
C5_Witness ==
    \E r \in Reqs : Done(r) /\ resp[r].status = 201 /\ Recorded(r)

(***************************************************************************)
(* C6  Replay fidelity: when a request is answered 200 by Enforce and a    *)
(* request with the same key has already been answered 201, the replayed   *)
(* data is the data of that 201 response (same id, same fields, same       *)
(* timestamps), however many replays there are.                            *)
(***************************************************************************)
C6_ReplayFidelity ==
    [][\A q, r \in Reqs :
          (/\ Looked(q) /\ pc'[q] = "done" /\ resp'[q].status = 200
           /\ Done(r) /\ Keyed(r) /\ resp[r].status = 201
           /\ req[r].Key = req'[q].Key) =>
              /\ req'[q].BodyHash = req[r].BodyHash
              /\ UnmarshalAny(resp'[q].data) = UnmarshalAny(resp[r].data)]_vars

\* A creation and a replay of it; the replay is written in another field
\* order but carries the created id.
C6_Witness ==
    \E r, q \in Reqs :
        /\ Done(r) /\ Done(q) /\ Keyed(r) /\ Keyed(q)
        /\ resp[r].status = 201 /\ resp[q].status = 200
        /\ req[r].Key = req[q].Key
        /\ resp[q].data # resp[r].data
        /\ UnmarshalAny(resp[q].data)["id"] = r

(***************************************************************************)
(* C7  Expiry property: a valid request that missed the cache and whose    *)
(* key has a durable record whose expiresAt has passed is processed as     *)
(* novel: it is answered 201 (unless the cache or the database fails).     *)
(***************************************************************************)
C7_Expiry ==
    [][\A r \in Reqs :
          (/\ Answers(r) /\ InHandler(r) /\ Keyed(r)
           /\ ValidBody(req[r].body)
           /\ redis[RedisKey(req[r].Key)] = None
           /\ \E x \in RecordsOf(req[r].Key) : x.ExpiredAt <= now) =>
              (resp'[r].status = 201 \/ resp'[r].error \in InfraErrors)]_vars

(***************************************************************************)
(* C8  Read-through on cache miss: an Enforce step that finds no cache     *)
(* entry for the key while the durable table holds an unexpired record for *)
(* it with the request's body hash answers 200 and repopulates the cache.  *)
(***************************************************************************)
C8_ReadThrough ==
    [][\A r \in Reqs :
          (/\ Looked(r)
           /\ redis[RedisKey(req'[r].Key)] = None
           /\ \E x \in RecordsOf(req'[r].Key) :
                 x.BodyHash = req'[r].BodyHash /\ x.ExpiredAt > now) =>
              /\ pc'[r] = "done" /\ resp'[r].status = 200
              /\ redis'[RedisKey(req'[r].Key)] # None]_vars

C10_RaceResolution ==
    [][\A r, q \in Reqs :
          (/\ r # q
           /\ Answers(r) /\ pc[r] = "handler" /\ Keyed(r) /\ ValidBody(req[r].body)
           /\ Done(q) /\ Keyed(q) /\ resp[q].status = 201
           /\ req[q].Key = req[r].Key
           /\ redis[RedisKey(req[r].Key)] # None) =>
              IF req[r].BodyHash = req[q].BodyHash
              THEN /\ resp'[r].status = 200
                   /\ UnmarshalAny(resp'[r].data) = UnmarshalAny(resp[q].data)
              ELSE resp'[r].status = 409]_vars

(***************************************************************************)
(* C11  The loser fails atomically: when two requests on one key went to   *)
(* the handler, one was answered 201 and the other failed, no transaction  *)
(* row, no idempotency record and no cache entry of the failed request     *)
(* persists, and the key's row, record and cache entry are the ones the    *)
(* winner wrote.                                                           *)
(***************************************************************************)
FailedInHandler(q) ==
    Done(q) /\ Keyed(q) /\ resp[q].status \notin {200, 201, 409}

C11_LoserAtomic ==
    \A r, q \in Reqs :
        (/\ r # q /\ Done(r) /\ Keyed(r) /\ resp[r].status = 201
         /\ FailedInHandler(q) /\ req[q].Key = req[r].Key) =>
            LET k == req[r].Key
                c == redis[RedisKey(k)]
            IN /\ \A e \in transactions : e.ID # q
               /\ \A x \in idempotency_cache : ~OwnRecord(x, q)
               /\ \E e \in transactions :
                     /\ EntitiesOf(k) = {e} /\ e.ID = r
                     /\ MarshalTransaction(e) = resp[r].data
               /\ \E x \in idempotency_cache :
                     /\ RecordsOf(k) = {x}
                     /\ x.BodyHash = req[r].BodyHash
                     /\ x.ResponsePayload = resp[r].data
                     /\ c # None => c.value = x

\* Two requests on one key both missed the cache; one created the row, the
\* other ran into it, and the cache still holds the winner's record.
C11_Witness ==
    \E r, q \in Reqs :
        /\ r # q /\ Done(r) /\ Keyed(r) /\ resp[r].status = 201
        /\ FailedInHandler(q) /\ req[q].Key = req[r].Key
        /\ resp[q].error = "failed to create transaction"
        /\ redis[RedisKey(req[r].Key)] # None

(***************************************************************************)
(* C12  No orphan record: a durable idempotency record for a key exists    *)
(* only if a transaction row referencing the key is committed, or is       *)
(* about to be committed by the still open outer transaction of the        *)
(* request that wrote the record.                                          *)
(***************************************************************************)
C12_NoOrphanRecord ==
    \A x \in idempotency_cache :
        \/ EntitiesOf(x.Key) # {}
        \/ \E r \in Reqs : t1[r] # None /\ t1[r].IdempotencyCacheKey = x.Key

(***************************************************************************)
(* C13  No pre-commit visibility: an Enforce step answers 200 or 409 for a *)
(* key only when the transaction row of that key is durably committed.     *)
(***************************************************************************)
C13_NoPreCommitVisibility ==
    [][\A q \in Reqs :
          (/\ Looked(q) /\ pc'[q] = "done"
           /\ resp'[q].status \in {200, 409}) =>
              EntitiesOf(req'[q].Key) # {}]_vars

(***************************************************************************)
(* C14  Cache is a projection of the durable store: a cache entry for a    *)
(* key carries the bodyHash and responsePayload of the durable record of   *)
(* that key, or of the record an open transaction is about to commit.      *)
(***************************************************************************)
SameRecord(c, x) ==
    c.value.BodyHash = x.BodyHash /\ c.value.ResponsePayload = x.ResponsePayload

C14_CacheProjection ==
    \A k \in Keys :
        (env.prefix # "" /\ redis[RedisKey(k)] # None) =>
            \/ \E x \in RecordsOf(k) : SameRecord(redis[RedisKey(k)], x)
            \/ \E r \in Reqs :
                  /\ t2[r] # None /\ t2[r].Key = k
                  /\ SameRecord(redis[RedisKey(k)], t2[r])

(***************************************************************************)
(* C15  Expiry horizon: a cache entry never expires later than the         *)
(* durable record of its key.                                              *)
(***************************************************************************)
C15_ExpiryHorizon ==
    \A k \in Keys :
        (env.prefix # "" /\ redis[RedisKey(k)] # None) =>
            \A x \in RecordsOf(k) : redis[RedisKey(k)].expireAt <= x.ExpiredAt

(***************************************************************************)
(* C16  Business-validation failure leaves no trace: a request that        *)
(* reached the handler with a well-formed body whose consumer does not     *)
(* exist is answered 404, one whose consumer is not active is answered     *)
(* 400 with the business error; the step writes nothing to the tables or   *)
(* the cache and leaves no open transaction.  A later request with the     *)
(* same key (and no other request on it) misses the cache and, with a      *)
(* valid body, is answered 201 unless the cache or the database fails.     *)
(***************************************************************************)
NoConsumer(b) ==
    LET t == ShouldBindJSON(b) IN
    ~t.err /\ Validate(t) /\ t.ConsumerID \notin DOMAIN Consumers

InactiveConsumer(b) ==
    LET t == ShouldBindJSON(b) IN
    /\ ~t.err /\ Validate(t) /\ t.ConsumerID \in DOMAIN Consumers
    /\ Consumers[t.ConsumerID] # ConsumerStatusActive

BusinessRejected(q) ==
    /\ Done(q) /\ Keyed(q)
    /\ \/ resp[q].status = 404 /\ resp[q].error = "Consumer not found"
       \/ resp[q].status = 400 /\ resp[q].error = "Invalid transaction data"

OnlyOnKey(q, r) ==
    \A s \in Reqs \ {q, r} : ~(Keyed(s) /\ req[s].Key = req[q].Key)

C16_ValidationNoTrace ==
    [][\A r \in Reqs :
          /\ (pc[r] = "handler" /\ pc'[r] # "handler" /\ Keyed(r)
              /\ (NoConsumer(req[r].body) \/ InactiveConsumer(req[r].body))) =>
                 /\ pc'[r] = "done"
                 /\ IF NoConsumer(req[r].body)
                    THEN resp'[r].status = 404 /\ resp'[r].error = "Consumer not found"
                    ELSE resp'[r].status = 400 /\ resp'[r].error = "Invalid transaction data"
                 /\ UNCHANGED <<redis, transactions, idempotency_cache>>
                 /\ t1'[r] = None /\ t2'[r] = None
          /\ \A q \in Reqs \ {r} :
                (BusinessRejected(q) /\ Looked(r) /\ req'[r].Key = req[q].Key
                 /\ OnlyOnKey(q, r)) => pc'[r] = "handler"
          /\ \A q \in Reqs \ {r} :
                (/\ BusinessRejected(q) /\ Answers(r) /\ InHandler(r) /\ Keyed(r)
                 /\ req[r].Key = req[q].Key /\ OnlyOnKey(q, r)
                 /\ ValidBody(req[r].body) /\ ~Atoi(env.ttlHours).err) =>
                    (resp'[r].status = 201 \/ resp'[r].error \in InfraErrors)]_vars

\* A request was rejected for its consumer and left nothing; a later request
\* with the same key created the transaction.
C16_Witness ==
    \E q, r \in Reqs :
        /\ q < r /\ BusinessRejected(q) /\ resp[q].status = 404
        /\ Done(r) /\ Keyed(r) /\ req[r].Key = req[q].Key
        /\ resp[r].status = 201
        /\ \A e \in transactions : e.ID # q

(***************************************************************************)
(* C17  Bypass property: with IDEMPOTENCY_ENABLED set to anything but      *)
(* TRUE, the durable table of idempotency records and the cache stay       *)
(* empty, whatever requests are made, with or without a key header.        *)
(***************************************************************************)
C17_Bypass ==
    env.enabled # "TRUE" =>
        /\ idempotency_cache = {}
        /\ \A k \in DOMAIN redis : redis[k] = None

\* Enforcement is off and two requests with a well-formed body went through
\* the handler, one with a key header and one without.
C17_Witness ==
    /\ env.enabled = "FALSE"
    /\ \E r, q \in Reqs :
          /\ Done(r) /\ req[r] # None /\ req[r].Header # ""
          /\ Done(q) /\ req[q] # None /\ req[q].Header = ""
          /\ ValidBody(req[r].body) /\ ValidBody(req[q].body)

(***************************************************************************)
(* C18  With enforcement disabled a request with a well-formed body and an *)
(* active consumer, passed on by Enforce, is answered 201 and its          *)
(* transaction row is committed.                                           *)
(***************************************************************************)
C18_DisabledCreates ==
    [][\A r \in Reqs :
          (/\ env.enabled = "FALSE"
           /\ pc[r] = "handler" /\ Answers(r)
           /\ ValidBody(req[r].body)) =>
              /\ resp'[r].status = 201
              /\ \E e \in transactions' : e.ID = r]_vars

(***************************************************************************)
(* C19  Validator rules apply in order with enforcement enabled: a request *)
(* whose method is not POST, PUT or DELETE is answered 405, also when it   *)
(* has no key; otherwise a request without a key is answered 400.  Either  *)
(* way the answer does not depend on the cache (it is the same when the    *)
(* cache is down), no metadata is injected, the handler is not invoked,    *)
(* and tables, cache and open transactions are unchanged.                  *)
(***************************************************************************)
Mutating(method) == method \in {"POST", "PUT", "DELETE"}

C19_ValidatorOrder ==
    [][\A r \in Reqs :
          (/\ pc[r] = "new" /\ pc'[r] # "new"
           /\ env.enabled = "TRUE" /\ env.keyHeader # "" /\ env.prefix # ""
           /\ ~Mutating(req'[r].Method) \/ req'[r].Header = "") =>
              /\ pc'[r] = "done"
              /\ resp'[r].status = IF ~Mutating(req'[r].Method) THEN 405 ELSE 400
              /\ ~req'[r].hasMeta
              /\ StoresUnchanged]_vars

\* One request was rejected for its method and one for its missing key;
\* nothing was stored.
C19_Witness ==
    /\ env.enabled = "TRUE"
    /\ \E r, q \in Reqs :
          /\ Done(r) /\ resp[r].status = 405 /\ req[r].Header = ""
          /\ Done(q) /\ resp[q].status = 400 /\ Mutating(req[q].Method)
          /\ resp[q].error = "Idempotency key header is required"
    /\ transactions = {} /\ idempotency_cache = {}

(***************************************************************************)
(* C20  Key format check: with enforcement enabled, a request with a       *)
(* mutating method whose key header is not a UUID is answered 400 by       *)
(* Enforce and goes no further.                                            *)
(***************************************************************************)
C20_KeyFormat ==
    [][\A r \in Reqs :
          (/\ pc[r] = "new" /\ pc'[r] # "new"
           /\ env.enabled = "TRUE" /\ env.keyHeader # "" /\ env.prefix # ""
           /\ Mutating(req'[r].Method)
           /\ req'[r].Header # "" /\ ~IsUUID(req'[r].Header)) =>
              pc'[r] = "done" /\ resp'[r].status = 400]_vars

(***************************************************************************)
(* C21  Fail-closed lookup: an Enforce step whose cache lookup fails with  *)
(* an error other than not-found answers 500 and ends the request (the     *)
(* handler is not entered, no metadata is injected), leaving cache, tables *)
(* and open transactions unchanged, whether or not the cache holds an      *)
(* entry for the key; and with enforcement enabled a request is passed to  *)
(* the handler only after a lookup that found nothing.                     *)
(***************************************************************************)
C21_FailClosed ==
    [][\A r \in Reqs :
          /\ (pc[r] = "new" /\ pc'[r] # "new" /\ req'[r].Lookup = "error") =>
                /\ pc'[r] = "done"
                /\ resp'[r].status = 500
                /\ ~req'[r].hasMeta
                /\ StoresUnchanged
          /\ (pc[r] = "new" /\ pc'[r] = "handler" /\ env.enabled = "TRUE") =>
                /\ req'[r].Lookup = "nil"
                /\ redis[RedisKey(req'[r].Key)] = None]_vars

\* The lookup of a request failed while the cache held the entry of its key,
\* written by a request that was answered 201; nothing was replayed.
C21_Witness ==
    \E r, q \in Reqs :
        /\ Done(r) /\ req[r] # None /\ req[r].Lookup = "error"
        /\ resp[r].status = 500
        /\ Done(q) /\ Keyed(q) /\ resp[q].status = 201
        /\ req[q].Key = req[r].Header
        /\ redis[RedisKey(req[q].Key)] # None

(***************************************************************************)
(* C22  bodyHash immutability: once a record for a key is in the durable   *)
(* table, no step changes its bodyHash, and a cache entry of the key       *)
(* carries that bodyHash after every step, whatever create requests,       *)
(* conflicts, replays and UpdateIdempotencyCache calls take place; a       *)
(* request on the key with another hash is answered neither 200 nor 201   *)
(* and leaves the table of records as it was.                              *)
(***************************************************************************)
C22_BodyHashImmutable ==
    [][/\ \A x \in idempotency_cache :
             /\ \E y \in idempotency_cache' : y.Key = x.Key
             /\ \A y \in idempotency_cache' : y.Key = x.Key => y.BodyHash = x.BodyHash
             /\ (env.prefix # "" /\ redis'[RedisKey(x.Key)] # None) =>
                    redis'[RedisKey(x.Key)].value.BodyHash = x.BodyHash
       /\ \A r \in Reqs :
             (/\ Answers(r) /\ req'[r] # None /\ req'[r].hasMeta
              /\ \E x \in RecordsOf(req'[r].Key) : x.BodyHash # req'[r].BodyHash) =>
                 /\ resp'[r].status \notin {200, 201}
                 /\ idempotency_cache' = idempotency_cache]_vars

\* A record was created by a request and then given a new response payload
\* by UpdateIdempotencyCache; table and cache still carry the hash of the
\* creating request's body.
C22_Witness ==
    \E r, u \in Reqs :
        /\ Done(r) /\ Keyed(r) /\ resp[r].status = 201
        /\ Done(u) /\ req[u] = None /\ resp[u].status = 0 /\ resp[u].error = ""
        /\ \E x \in RecordsOf(req[r].Key) :
              /\ x.ResponsePayload # resp[r].data
              /\ x.BodyHash = req[r].BodyHash
              /\ redis[RedisKey(x.Key)] # None
              /\ redis[RedisKey(x.Key)].value.BodyHash = req[r].BodyHash

(***************************************************************************)
(* C23  Record uniqueness: in every reachable state the durable table      *)
(* holds at most one idempotency record per key, also when concurrent      *)
(* CreateIdempotencyCache calls for one key pass the existence check       *)
(* before either has inserted.                                             *)
(***************************************************************************)
C23_RecordUniqueness ==
    \A k \in Keys \cup BadKeys : Cardinality(RecordsOf(k)) <= 1

\* Two calls for one key both passed the existence check; one committed its
\* record and the insert of the other ran into it.
C23_Witness ==
    \E r, q \in Reqs :
        /\ r # q /\ Done(r) /\ Done(q)
        /\ resp[r].status = 0 /\ resp[r].error = ""
        /\ resp[q].status = 0 /\ resp[q].error = "failed to create idempotency cache"
        /\ req[r] # None /\ req[q] # None /\ req[q].Key = req[r].Key
        /\ RecordsOf(req[r].Key) = {req[r]}

(***************************************************************************)
(* C24  Record-phase re-check: when a request that missed the cache and    *)
(* inserted its transaction row finds, in the record phase, a committed    *)
(* record under its key, the request ends with status 500 (not 409), its   *)
(* outer transaction is rolled back so that no row of the request is       *)
(* persisted, and the tables and the cache are left as they were.          *)
(***************************************************************************)
C24_RecordPhaseRecheck ==
    [][\A r \in Reqs :
          (/\ pc[r] = "idemCheck" /\ pc'[r] # "idemCheck"
           /\ ~Atoi(env.ttlHours).err
           /\ RecordsOf(req[r].Key) # {}) =>
              /\ pc'[r] = "done"
              /\ resp'[r].status = 500
              /\ resp'[r].error = "idempotency key already exists"
              /\ t1'[r] = None /\ t2'[r] = None
              /\ UNCHANGED <<redis, transactions, idempotency_cache>>
              /\ ~\E e \in transactions' : e.ID = r]_vars

\* A request missed the cache, found the record another request had left
\* under its key, and ended with the internal error; the record is still
\* the other request's and no row references the key.
C24_Witness ==
    \E r \in Reqs :
        /\ Done(r) /\ Keyed(r) /\ req[r].Lookup = "nil"
        /\ resp[r].status = 500
        /\ resp[r].error = "idempotency key already exists"
        /\ \E x \in idempotency_cache :
              RecordsOf(req[r].Key) = {x} /\ ~OwnRecord(x, r)
        /\ ~\E e \in transactions : e.ID = r

(***************************************************************************)
(* C25  Back-reference: the IdempotencyCacheKey of every committed         *)
(* transaction row is the key header of the request that created the row,  *)
(* also when the request body names another idempotencyCacheKey; no two    *)
(* rows carry the same key; and a committed row is never changed or        *)
(* removed.                                                                *)
(***************************************************************************)
C25_BackReference ==
    [][/\ \A e \in transactions : e \in transactions'
       /\ \A e \in transactions' :
             /\ e.ID \in Reqs
             /\ req'[e.ID] # None
             /\ e.IdempotencyCacheKey = req'[e.ID].Header
             /\ \A f \in transactions' :
                   f.IdempotencyCacheKey = e.IdempotencyCacheKey => f = e]_vars

\* A request whose body names key k2 was sent under key k1; its row is
\* committed under k1.
C25_Witness ==
    \E r \in Reqs :
        /\ Done(r) /\ Keyed(r) /\ resp[r].status = 201
        /\ ShouldBindJSON(req[r].body).IdempotencyCacheKey = "k2"
        /\ req[r].Header = "k1"
        /\ \E e \in transactions : e.ID = r /\ e.IdempotencyCacheKey = "k1"

(***************************************************************************)
(* C26  Empty payload is rejected as an error: Hash256Bytes returns an     *)
(* error and no digest for the empty byte string, and an Enforce step that *)
(* read an empty body ends the request with status 500 without looking up  *)
(* the cache, without entering the handler or injecting metadata, and      *)
(* without changing tables, cache or open transactions.                    *)
(***************************************************************************)
C26_EmptyPayloadRejected ==
    [][/\ Hash256Bytes(<< >>).err /\ Hash256Bytes(<< >>).digest = << >>
       /\ \A r \in Reqs :
             (pc[r] = "new" /\ pc'[r] # "new" /\ req'[r].Raw = "empty") =>
                /\ pc'[r] = "done"
                /\ resp'[r].status = 500
                /\ resp'[r].error = "Failed to hash request body"
                /\ req'[r].Lookup = "none"
                /\ ~req'[r].hasMeta
                /\ StoresUnchanged]_vars

\* A request with a key and an empty body was refused while the cache held
\* an entry for its key.
C26_Witness ==
    \E r \in Reqs :
        /\ Done(r) /\ req[r] # None /\ req[r].Raw = "empty"
        /\ resp[r].status = 500
        /\ redis[RedisKey(req[r].Header)] # None

(***************************************************************************)
(* C27  responsePayload changes only through UpdateIdempotencyCache: a     *)
(* stored record keeps key, bodyHash, createdAt and expiredAt in every     *)
(* step, and its responsePayload and updatedAt change only in the commit   *)
(* of a successful update of its key; that commit leaves the record with   *)
(* the payload and updatedAt of the call in the durable table and in the   *)
(* cache entry; and while a record exists, the payload of the key's cache  *)
(* entry changes only in the cache write of an update of the key.          *)
(***************************************************************************)
UpdateCommitted(r) ==
    pc[r] = "updCommit" /\ pc'[r] = "done" /\ resp'[r].error = ""

C27_PayloadOnlyByUpdate ==
    [][/\ \A x \in idempotency_cache :
             \E y \in idempotency_cache' :
                /\ {z \in idempotency_cache' : z.Key = x.Key} = {y}
                /\ y.BodyHash = x.BodyHash
                /\ y.CreatedAt = x.CreatedAt /\ y.ExpiredAt = x.ExpiredAt
                /\ y # x => \E r \in Reqs : UpdateCommitted(r) /\ t2[r] = y
       /\ \A r \in Reqs :
             UpdateCommitted(r) =>
                /\ t2[r] \in idempotency_cache'
                /\ t2[r].ResponsePayload \in {MarshalMap(p) : p \in UpdatePayloads}
                /\ t2[r].UpdatedAt = now
                /\ redis'[RedisKey(t2[r].Key)] # None
                /\ redis'[RedisKey(t2[r].Key)].value = t2[r]
       /\ \A k \in Keys :
             (/\ RecordsOf(k) # {}
              /\ redis[RedisKey(k)] # None /\ redis'[RedisKey(k)] # None
              /\ redis'[RedisKey(k)].value.ResponsePayload
                    # redis[RedisKey(k)].value.ResponsePayload) =>
                 \E r \in Reqs :
                    pc[r] = "updSetRedis" /\ pc'[r] = "updCommit" /\ t2[r].Key = k]_vars

\* A record created at one time was given a new payload at a later time:
\* table and cache hold the new payload and updatedAt, with the key's
\* bodyHash, createdAt and expiredAt as the creating request left them.
C27_Witness ==
    \E r, u \in Reqs :
        /\ Done(r) /\ Keyed(r) /\ resp[r].status = 201
        /\ Done(u) /\ req[u] = None /\ resp[u].error = ""
        /\ \E x \in RecordsOf(req[r].Key) :
              /\ x.ResponsePayload \in {MarshalMap(p) : p \in UpdatePayloads}
              /\ x.UpdatedAt > x.CreatedAt
              /\ x.ExpiredAt = x.CreatedAt + Atoi(env.ttlHours).n
              /\ redis[RedisKey(x.Key)] # None
              /\ redis[RedisKey(x.Key)].value = x

(***************************************************************************)
(* C28  The cache client is lazily initialised and reset on close: the     *)
(* GetRedisClient call that follows a CloseRedis which closed a live       *)
(* client returns a client when the cache server is reachable, and leaves  *)
(* the client in RedisClient.                                              *)
(***************************************************************************)
C28_ReinitAfterClose ==
    [][(/\ ret.call = "CloseRedis" /\ ret.closed
        /\ ret'.call = "GetRedisClient" /\ ret'.reachable) =>
           /\ ret'.client = "client"
           /\ RedisClient' = "client"]_vars

(***************************************************************************)
(* C29  Entity implies record: every committed transaction row has a       *)
(* committed idempotency record under its key; and a request that ended on *)
(* an error of CreateIdempotencyCache (invalid TTL, existing key, failed   *)
(* insert, failed cache write, failed commit) has no committed row and no  *)
(* open transaction.                                                       *)
(***************************************************************************)
RecordPhaseErrors ==
    {"invalid Idempotency TTL hours", "idempotency key already exists",
     "failed to create idempotency cache",
     "failed to set idempotency key in Redis", "idempotency commit failed"}

C29_EntityImpliesRecord ==
    /\ \A e \in transactions : RecordsOf(e.IdempotencyCacheKey) # {}
    /\ \A r \in Reqs :
          (Done(r) /\ resp[r].error \in RecordPhaseErrors) =>
              /\ resp[r].status = 500
              /\ ~\E e \in transactions : e.ID = r
              /\ t1[r] = None /\ t2[r] = None

\* One request committed its row and its record; another, on another key,
\* inserted its row, failed in the record phase and left no row.
C29_Witness ==
    \E r, q \in Reqs :
        /\ Done(r) /\ resp[r].status = 201
        /\ \E e \in transactions :
              e.ID = r /\ RecordsOf(e.IdempotencyCacheKey) # {}
        /\ Done(q) /\ Keyed(q) /\ req[q].Key # req[r].Key
        /\ resp[q].error \in RecordPhaseErrors \ {"invalid Idempotency TTL hours"}
        /\ EntitiesOf(req[q].Key) = {}

(***************************************************************************)
(* C30  Enforce produces exactly one outcome per request: its step either  *)
(* writes the response and ends the request (the handler is not entered)   *)
(* or passes the request to the handler without a response written; the    *)
(* key and the body hash are injected into the context only when the       *)
(* request is passed on after a lookup that found nothing; the handler is  *)
(* entered at most once, and a written response is never replaced.         *)
(***************************************************************************)
C30_OneOutcome ==
    [][\A r \in Reqs :
          /\ (pc[r] = "new" /\ pc'[r] # "new") =>
                /\ resp[r] = None
                /\ \/ pc'[r] = "done" /\ resp'[r] # None
                   \/ pc'[r] = "handler" /\ resp'[r] = None
                /\ req'[r].Injected =>
                      /\ pc'[r] = "handler"
                      /\ req'[r].Lookup = "nil"
                      /\ req'[r].Key = req'[r].Header
                      /\ req'[r].BodyHash = Hash256Bytes(req'[r].body).digest
          /\ pc'[r] = "handler" => pc[r] \in {"new", "handler"}
          /\ pc[r] = "done" => (pc'[r] = "done" /\ resp'[r] = resp[r])]_vars

\* Of two requests on one key the first was passed on with the metadata and
\* answered by the handler, the second was answered by Enforce itself from
\* the cache, with nothing injected.
C30_Witness ==
    \E r, q \in Reqs :
        /\ Done(r) /\ req[r] # None /\ req[r].Injected /\ resp[r].status = 201
        /\ Done(q) /\ req[q] # None /\ ~req[q].Injected
        /\ req[q].Lookup = "hit" /\ req[q].Header = req[r].Header
        /\ resp[q].status \in {200, 409}

(***************************************************************************)
(* C31.  The configuration check comes before every other rule of          *)
(* Enforce: when the enabled flag, the key-header name or the prefix is    *)
(* empty, every request that Enforce has taken is answered 500 by Enforce  *)
(* and the handler is never entered (the request is never at a handler     *)
(* step, nothing is injected, no row is written), also when the enabled    *)
(* flag has a value other than TRUE.                                       *)
(***************************************************************************)
C31_ConfigCheckFirst ==
    (env.enabled = "" \/ env.keyHeader = "" \/ env.prefix = "") =>
        /\ \A r \in Reqs :
              pc[r] # "new" =>
                 /\ pc[r] = "done"
                 /\ resp[r] = [status |-> 500,
                               error |-> "idempotency environment variables are not set",
                               data |-> NoData]
                 /\ ~req[r].Injected
                 /\ t1[r] = None /\ t2[r] = None
        /\ transactions = {} /\ idempotency_cache = {}

\* Enforcement is switched off (the flag is not TRUE) and the key-header
\* name is empty: a POST with a key and a valid body was answered 500.
C31_Witness ==
    /\ env.enabled = "FALSE" /\ env.keyHeader = ""
    /\ \E r \in Reqs :
          /\ pc[r] = "done" /\ resp[r].status = 500
          /\ req[r].Method = "POST" /\ req[r].Header = "k1"

(***************************************************************************)
(* C32.  An UpdateIdempotencyCache call that fails changes nothing.  A     *)
(* call for a key without a record returns an error in one step that       *)
(* leaves the tables, the open transactions and the cache as they were     *)
(* (no record and no cache entry appear).  A call whose cache write fails  *)
(* returns an error in a step that leaves the tables and the cache as      *)
(* they were, and from the Save to that return no other step changes the   *)
(* committed record of the key: the record keeps the payload it had.       *)
(***************************************************************************)
C32_FailedUpdateChangesNothing ==
    [][\A r \in Reqs :
          /\ (pc[r] = "new" /\ pc'[r] = "done" /\ resp'[r].status = 0
                /\ resp'[r].error = "record not found") =>
                 /\ StoresUnchanged
                 /\ \E key \in CalledKeys :
                       /\ RecordsOf(key)' = {}
                       /\ \A p \in PrefixValues : redis'[p \o key] = redis[p \o key]
          /\ (pc[r] = "new" /\ pc'[r] = "updSetRedis") =>
                 /\ idempotency_cache' = idempotency_cache
                 /\ \E x \in RecordsOf(t2'[r].Key) :
                       t2'[r] = [x EXCEPT !.ResponsePayload = t2'[r].ResponsePayload,
                                          !.UpdatedAt = t2'[r].UpdatedAt]
          /\ (pc[r] = "updSetRedis" /\ pc'[r] = "updSetRedis") =>
                 RecordsOf(t2[r].Key)' = RecordsOf(t2[r].Key)
          /\ (pc[r] = "updSetRedis" /\ pc'[r] = "done") =>
                 /\ resp'[r].error = "failed to update idempotency key in Redis"
                 /\ idempotency_cache' = idempotency_cache
                 /\ redis' = redis
                 /\ t2'[r] = None /\ transactions' = transactions]_vars

\* An update of the record of a committed transaction has failed on its
\* cache write; the record still holds the response of the transaction.
C32_Witness ==
    \E r \in Reqs, x \in idempotency_cache, e \in transactions :
        /\ pc[r] = "done" /\ resp[r].status = 0
        /\ resp[r].error = "failed to update idempotency key in Redis"
        /\ x.Key \in CalledKeys /\ e.IdempotencyCacheKey = x.Key
        /\ x.ResponsePayload = MarshalTransaction(e)

\* An update has been called for a key that has no record.
C32_MissingKeyCase ==
    \E r \in Reqs :
        /\ pc[r] = "done" /\ resp[r].status = 0
        /\ resp[r].error = "record not found"
        /\ idempotency_cache = {} /\ \A k \in RedisKeys : redis[k] = None

(***************************************************************************)
(* C33.  Key isolation.  A step of a request that presents key K, or of an *)
(* UpdateIdempotencyCache call for key K, leaves the records, the entities *)
(* and the cache entries of every other key as they were, whatever the     *)
(* other requests are doing.  (Expiry and a flush of the cache are not     *)
(* steps of a request.)                                                     *)
(***************************************************************************)
\* The key the step of r works for: the key header of the request, or the
\* key a service method was called with.
OperationKeys(r) == IF req'[r] # None THEN {req'[r].Header} ELSE CalledKeys

C33_KeyIsolation ==
    [][\/ UNCHANGED <<redis, transactions, idempotency_cache>>
       \/ \A r \in Reqs :
             pc'[r] # pc[r] =>
                \E K \in OperationKeys(r) :
                   /\ \A K2 \in (Keys \cup BadKeys) \ {K} :
                         /\ RecordsOf(K2)' = RecordsOf(K2)
                         /\ EntitiesOf(K2)' = EntitiesOf(K2)
                   /\ \A k \in RedisKeys \ {env.prefix \o K} :
                         redis'[k] = redis[k]]_vars

\* Two requests on different keys have each been answered 201 and each key
\* holds its own record, entity and cache entry.
C33_Witness ==
    /\ \A K \in Keys :
          /\ \E x \in RecordsOf(K), e \in EntitiesOf(K) :
                /\ x.ResponsePayload = MarshalTransaction(e)
                /\ redis[env.prefix \o K] # None
                /\ redis[env.prefix \o K].value.Key = K
    /\ \E r, q \in Reqs :
          /\ r # q /\ Done(r) /\ Done(q)
          /\ resp[r].status = 201 /\ resp[q].status = 201
          /\ resp[r].data # resp[q].data

(***************************************************************************)
(* C34.  Progress under a bounded connection pool: requests on novel keys  *)
(* all complete, none waits forever for a connection held by the outer     *)
(* transaction of another request.  As a property of states: whenever a    *)
(* request is being handled, some request can take a step (a request that  *)
(* waits for a connection waits for one that a request able to go on will  *)
(* give back).                                                             *)
(***************************************************************************)
C34_PoolProgress ==
    (\E r \in Reqs : pc[r] \notin {"new", "done"}) => ENABLED PoolRequestStep

(***************************************************************************)
(* C35.  Single initialisation.  With any number of concurrent InitRedis   *)
(* and GetRedisClient callers and no CloseRedis, at most one caller        *)
(* constructs a client, at most one pings and at most one flushes, and all *)
(* callers of GetRedisClient that are handed a client are handed the same  *)
(* instance, the one held in RedisClient.                                  *)
(***************************************************************************)
Callers(f) == {r \in Reqs : req[r] # None /\ req[r][f]}

C35_SingleInitialisation ==
    /\ Cardinality(Callers("built")) <= 1
    /\ Cardinality(Callers("pinged")) <= 1
    /\ Cardinality(Callers("flushed")) <= 1
    /\ \A r \in Reqs :
          (pc[r] = "done" /\ req[r].call = "GetRedisClient"
             /\ resp[r].client # "nil") => resp[r].client = RedisClient

\* Of two callers of GetRedisClient one ran the body of once.Do to its end
\* and the other did not run it; both were handed the one client.
C35_Witness ==
    \E r, q \in Reqs :
        /\ r # q /\ pc[r] = "done" /\ pc[q] = "done"
        /\ req[r].call = "GetRedisClient" /\ req[q].call = "GetRedisClient"
        /\ req[r].built /\ req[r].pinged /\ req[r].flushed
        /\ ~req[q].built
        /\ resp[r].client # "nil" /\ resp[q].client = resp[r].client

(***************************************************************************)
(* C36.  InitRedis reports success only when a client is available: after  *)
(* any sequence of InitRedis, GetRedisClient and CloseRedis calls, an      *)
(* InitRedis call that returns true leaves RedisClient non-nil; a          *)
(* GetRedisClient call that returns nil has logged the failed              *)
(* initialisation; and a SetJSON call that finds no client returns         *)
(* "redis client is nil" and leaves the cache as it was.                   *)
(***************************************************************************)
C36_SuccessMeansClient ==
    [][/\ (ret'.call = "InitRedis" /\ ret'.isSuccess) => RedisClient' # "nil"
       /\ (ret'.call = "GetRedisClient" /\ ret'.client = "nil") => ret'.logged
       /\ (ret'.call = "SetJSON" /\ RedisClient' = "nil") =>
              /\ ret'.err = "redis client is nil"
              /\ redis' = redis]_vars

====
